---------------------------- MODULE Spec2Model ----------------------------
(***************************************************************************)
(* Hybrid result fusion (src/src/Services/search/hybrid_search.py).        *)
(*                                                                         *)
(* hybrid_search merges a keyword result list (Elasticsearch, BM25 score,  *)
(* higher is better) and a semantic result list (vector store, distance,   *)
(* lower is better) into one ranked list, by weighted score combination    *)
(* or by Reciprocal Rank Fusion.                                           *)
(*                                                                         *)
(* Modelling conventions                                                   *)
(*  - A Python float is an exact rational <<n, d>> in lowest terms with    *)
(*    d > 0, so that two equal scores are equal values.                    *)
(*  - A Python dict (a result record) is a function from key strings to    *)
(*    values; a missing key is a key outside the DOMAIN.                   *)
(*  - A Python list is a sequence.  An insertion-ordered dict is kept as   *)
(*    the sequence of its keys plus a function on them.                    *)
(*  - Optional[int] is <<>> for None and <<n>> for the integer n.          *)
(*  - In a result record, "score", "_score" and "distance" hold floats,    *)
(*    "id" and "_id" hold strings, and every other key (an attribute of    *)
(*    the candidate) holds a Python value [type |-> .., repr |-> ..]: its  *)
(*    type name and its repr().                                            *)
(*  - A call either returns (pc = "returned", the list in out) or raises   *)
(*    (pc = "raised", the exception's class in exc).                       *)
(*  - Python dicts are objects.  A dict the call writes into in place is   *)
(*    named by its owner: <<"local", 0>> for a dict the call created,      *)
(*    <<"es", i>> or <<"vector", i>> for the i-th record of an input list. *)
(*  - The iteration order of a Python set of strings is not fixed by the   *)
(*    language (string hashes are salted per interpreter process): every   *)
(*    place that iterates a set takes the order as a parameter, chosen     *)
(*    nondeterministically among all permutations of the set.              *)
(***************************************************************************)
EXTENDS Integers, Sequences, FiniteSets, TLC

(***************************************************************************)
(* Bounds of the model.                                                    *)
(***************************************************************************)
\* Most candidates one call receives, over both lists together.
MaxTotal == 3

(***************************************************************************)
(* Float arithmetic, on rationals in lowest terms.                         *)
(***************************************************************************)
Abs(x) == IF x < 0 THEN -x ELSE x

RECURSIVE Gcd(_, _)
Gcd(a, b) == IF b = 0 THEN a ELSE Gcd(b, a % b)

\* The float n/d (d > 0).
Rat(n, d) ==
    LET g == Gcd(Abs(n), d)
    IN  IF n = 0 THEN <<0, 1>> ELSE <<n \div g, d \div g>>

Zero == Rat(0, 1)
Half == Rat(1, 2)
One == Rat(1, 1)

RAdd(x, y) == Rat(x[1] * y[2] + y[1] * x[2], x[2] * y[2])
RSub(x, y) == Rat(x[1] * y[2] - y[1] * x[2], x[2] * y[2])
RMul(x, y) == Rat(x[1] * y[1], x[2] * y[2])
\* x / y for y # 0
RDiv(x, y) ==
    IF y[1] > 0 THEN Rat(x[1] * y[2], x[2] * y[1])
    ELSE Rat(-(x[1] * y[2]), x[2] * (-y[1]))
RLess(x, y) == x[1] * y[2] < y[1] * x[2]
RLeq(x, y) == x[1] * y[2] <= y[1] * x[2]
RMax(x, y) == IF RLess(x, y) THEN y ELSE x

\* 1e-9, the width below which a score range counts as degenerate.
EpsDen == 1000000000
\* x < 1e-9, computed without forming x[1] * 10^9.
BelowEps(x) == x[1] <= (x[2] - 1) \div EpsDen

(***************************************************************************)
(* Python helpers: dicts, lists.                                           *)
(***************************************************************************)
Has(d, k) == k \in DOMAIN d
\* d.get(k, default)
Get(d, k, default) == IF k \in DOMAIN d THEN d[k] ELSE default
\* Mutant of Merge: a's value is kept where both have the key.
MergeKeepingFirst(a, b) ==
    [k \in DOMAIN a \cup DOMAIN b |-> IF k \in DOMAIN a THEN a[k] ELSE b[k]]

\* {**a, **b}: the keys of both, b's value where both have the key.
Merge(a, b) == [k \in DOMAIN a \cup DOMAIN b |-> IF k \in DOMAIN b THEN b[k] ELSE a[k]]
\* {**d, k: v}
With(d, k, v) == Merge(d, k :> v)

Range(s) == {s[i] : i \in 1..Len(s)}
Min2(a, b) == IF a < b THEN a ELSE b
Max2(a, b) == IF a < b THEN b ELSE a

RECURSIVE SeqMin(_)
SeqMin(s) == IF Len(s) = 1 THEN s[1]
             ELSE LET m == SeqMin(Tail(s)) IN IF RLess(s[1], m) THEN s[1] ELSE m
RECURSIVE SeqMax(_)
SeqMax(s) == IF Len(s) = 1 THEN s[1]
             ELSE LET m == SeqMax(Tail(s)) IN IF RLess(m, s[1]) THEN s[1] ELSE m
RECURSIVE SeqSum(_)
SeqSum(s) == IF s = <<>> THEN Zero ELSE RAdd(s[1], SeqSum(Tail(s)))

\* list[:n] for a list s and an integer n (a negative n counts from the end).
SliceTo(s, n) ==
    IF n >= 0 THEN SubSeq(s, 1, Min2(n, Len(s)))
    ELSE SubSeq(s, 1, Max2(0, Len(s) + n))

\* All orders in which a set can be iterated.
RECURSIVE Perms(_)
Perms(S) ==
    IF S = {} THEN {<<>>}
    ELSE UNION {{<<x>> \o p : p \in Perms(S \ {x})} : x \in S}

(***************************************************************************)
(* HybridSearchConfig.  method is "weighted" or "rrf", normalize_method    *)
(* is "minmax" or "standard".                                              *)
(***************************************************************************)
DefaultRrfK == 60

HybridSearchConfig(sw, kw, m, k, nm, thr, mr) ==
    [semantic_weight |-> sw, keyword_weight |-> kw, method |-> m, rrf_k |-> k,
     normalize_method |-> nm, min_score_threshold |-> thr, max_results |-> mr]

\* 1e-6, by which the two weights may miss the sum 1.0.
WeightTolDen == 1000000

\* abs(x) > 1e-6, computed without forming x[1] * 10^6.
AboveWeightTol(x) == Abs(x[1]) > x[2] \div WeightTolDen

\* 0 <= x <= 1
InUnitInterval(x) == RLeq(Zero, x) /\ RLeq(x, One)

\* Mutant of __post_init__: rrf_k is tested against 0 instead of 1.
PostInitRrfKFromZero(cfg) ==
    IF ~InUnitInterval(cfg.semantic_weight)
    THEN "semantic_weight must be between 0 and 1"
    ELSE IF ~InUnitInterval(cfg.keyword_weight)
    THEN "keyword_weight must be between 0 and 1"
    ELSE IF AboveWeightTol(RSub(RAdd(cfg.semantic_weight, cfg.keyword_weight), One))
    THEN "semantic_weight + keyword_weight must equal 1.0"
    ELSE IF cfg.rrf_k < 0
    THEN "rrf_k must be >= 1"
    ELSE IF ~InUnitInterval(cfg.min_score_threshold)
    THEN "min_score_threshold must be between 0 and 1"
    ELSE "ok"

\* HybridSearchConfig.__post_init__: the message of the ValueError it
\* raises for the fields of cfg, "ok" when it raises none.
__post_init__(cfg) ==
    IF ~InUnitInterval(cfg.semantic_weight)
    THEN "semantic_weight must be between 0 and 1"
    ELSE IF ~InUnitInterval(cfg.keyword_weight)
    THEN "keyword_weight must be between 0 and 1"
    ELSE IF AboveWeightTol(RSub(RAdd(cfg.semantic_weight, cfg.keyword_weight), One))
    THEN "semantic_weight + keyword_weight must equal 1.0"
    ELSE IF cfg.rrf_k < 1
    THEN "rrf_k must be >= 1"
    ELSE IF ~InUnitInterval(cfg.min_score_threshold)
    THEN "min_score_threshold must be between 0 and 1"
    ELSE "ok"

\* `if config.max_results:` is false for None and for 0.
MaxResultsIsTruthy(cfg) == cfg.max_results # <<>> /\ cfg.max_results[1] # 0

\* `if config.max_results: combined = combined[:config.max_results]`
ApplyMaxResults(combined, cfg) ==
    IF MaxResultsIsTruthy(cfg) THEN SliceTo(combined, cfg.max_results[1]) ELSE combined

(***************************************************************************)
(* Score normalization.                                                    *)
(***************************************************************************)
\* Mutant of _normalize_scores_minmax: the minimum is not subtracted.
MinMaxWithoutMin(scores) ==
    IF Len(scores) = 0 \/ Len(scores) = 1 THEN [i \in 1..Len(scores) |-> One]
    ELSE LET min_score == SeqMin(scores)
             max_score == SeqMax(scores)
             score_range == RSub(max_score, min_score)
         IN  IF BelowEps(score_range) THEN [i \in 1..Len(scores) |-> Half]
             ELSE [i \in 1..Len(scores) |-> RDiv(scores[i], score_range)]

_normalize_scores_minmax(scores) ==
    IF Len(scores) = 0 \/ Len(scores) = 1 THEN [i \in 1..Len(scores) |-> One]
    ELSE LET min_score == SeqMin(scores)
             max_score == SeqMax(scores)
             score_range == RSub(max_score, min_score)
         IN  IF BelowEps(score_range) THEN [i \in 1..Len(scores) |-> Half]
             ELSE [i \in 1..Len(scores) |-> RDiv(RSub(scores[i], min_score), score_range)]

\* Digits kept by the square root below: Sqrt(x) is within 1/SqrtScale of x ** 0.5.
SqrtScale == 100

\* The largest r in lo .. hi with r * r <= n, by bisection (lo * lo <= n).
RECURSIVE ISqrtIn(_, _, _)
ISqrtIn(n, lo, hi) ==
    IF lo >= hi THEN lo
    ELSE LET mid == (lo + hi + 1) \div 2
         IN  IF mid * mid <= n THEN ISqrtIn(n, mid, hi) ELSE ISqrtIn(n, lo, mid - 1)

\* x ** 0.5 for x >= 0, rounded down to a multiple of 1/SqrtScale.
Sqrt(x) ==
    LET n == (x[1] * SqrtScale * SqrtScale) \div x[2]
    IN  Rat(ISqrtIn(n, 0, n), SqrtScale)

\* 1 / (1 + exp(-z)).  exp is not rational: the curve is replaced by
\* 1/2 + z / (2 (1 + |z|)), which like it is strictly increasing, lies in
\* (0, 1), is 1/2 at 0 and satisfies s(-z) = 1 - s(z).
Sigmoid(z) ==
    RAdd(Half, RDiv(z, RMul(Rat(2, 1), RAdd(One, Rat(Abs(z[1]), z[2])))))

\* Mutant of _normalize_scores_standard: equal scores get 1.0, as a single
\* score does.
StandardDegenerateAsSingle(scores) ==
    IF Len(scores) = 0 \/ Len(scores) = 1 THEN [i \in 1..Len(scores) |-> One]
    ELSE LET n == Rat(Len(scores), 1)
             mean_score == RDiv(SeqSum(scores), n)
             sq(i) == LET d == RSub(scores[i], mean_score) IN RMul(d, d)
             variance == RDiv(SeqSum([i \in 1..Len(scores) |-> sq(i)]), n)
             std_dev == Sqrt(variance)
         IN  IF BelowEps(std_dev) THEN [i \in 1..Len(scores) |-> One]
             ELSE [i \in 1..Len(scores) |->
                      Sigmoid(RDiv(RSub(scores[i], mean_score), std_dev))]

_normalize_scores_standard(scores) ==
    IF Len(scores) = 0 \/ Len(scores) = 1 THEN [i \in 1..Len(scores) |-> One]
    ELSE LET n == Rat(Len(scores), 1)
             mean_score == RDiv(SeqSum(scores), n)
             sq(i) == LET d == RSub(scores[i], mean_score) IN RMul(d, d)
             variance == RDiv(SeqSum([i \in 1..Len(scores) |-> sq(i)]), n)
             std_dev == Sqrt(variance)
         IN  IF BelowEps(std_dev) THEN [i \in 1..Len(scores) |-> Half]
             ELSE [i \in 1..Len(scores) |->
                      Sigmoid(RDiv(RSub(scores[i], mean_score), std_dev))]

\* The `if config.normalize_method == 'minmax' ... else ...` of _rank_weighted.
NormalizeBy(cfg, scores) ==
    IF cfg.normalize_method = "minmax" THEN _normalize_scores_minmax(scores)
    ELSE _normalize_scores_standard(scores)

(***************************************************************************)
(* Field extraction.                                                       *)
(***************************************************************************)
_extract_es_score(result) == Get(result, "_score", Get(result, "score", Zero))

_extract_vector_distance(result) == Get(result, "distance", One)

\* The keys of a result record that do not hold an attribute value.
ScoringKeys == {"id", "_id", "score", "_score", "distance"}

\* Python values of these types have no hash.
UnhashableTypes == {"list", "dict", "set"}

\* True when hash(frozenset(result.items())) raises TypeError: some value
\* of the record is unhashable.
HashRaises(result) ==
    \E k \in DOMAIN result \ ScoringKeys : result[k].type \in UnhashableTypes

\* str(hash(frozenset(result.items()))): a string fixed by the record's
\* content, different for different contents.
HashFallback(result) == "hash:" \o ToString(result)

\* True when _extract_result_id(result) raises instead of returning.
ExtractResultIdRaises(result) ==
    ~Has(result, "_id") /\ ~Has(result, "id") /\ HashRaises(result)

_extract_result_id(result) ==
    IF Has(result, "_id") THEN result["_id"]
    ELSE IF Has(result, "id") THEN result["id"]
    ELSE HashFallback(result)

\* Mutant of Similarities: the distance itself is taken as the similarity.
SimilaritiesNotInverted(results) ==
    [i \in 1..Len(results) |-> RMax(Zero, _extract_vector_distance(results[i]))]

\* Mutant of Similarities: 1 - d is not clamped at zero.
SimilaritiesUnclamped(results) ==
    [i \in 1..Len(results) |-> RSub(One, _extract_vector_distance(results[i]))]

\* [max(0.0, 1.0 - d) for d in distances]
Similarities(results) ==
    [i \in 1..Len(results) |-> RMax(Zero, RSub(One, _extract_vector_distance(results[i])))]

EsScores(results) == [i \in 1..Len(results) |-> _extract_es_score(results[i])]

ResultIds(results) == {_extract_result_id(results[i]) : i \in 1..Len(results)}

\* The index whose record a dict keyed by result id holds for rid after the
\* list was written into it front to back: the last one with that id.
LastIndexOf(results, rid) ==
    CHOOSE i \in 1..Len(results) :
        /\ _extract_result_id(results[i]) = rid
        /\ \A j \in (i + 1)..Len(results) : _extract_result_id(results[j]) # rid

\* The first index with that id.
FirstIndexOf(results, rid) ==
    CHOOSE i \in 1..Len(results) :
        /\ _extract_result_id(results[i]) = rid
        /\ \A j \in 1..(i - 1) : _extract_result_id(results[j]) # rid

(***************************************************************************)
(* list.sort(key=lambda x: x[key], reverse=True): a stable sort, records   *)
(* with equal keys keep the order they had.                                *)
(***************************************************************************)
RECURSIVE InsertDesc(_, _, _)
InsertDesc(x, s, key) ==
    IF s = <<>> THEN <<x>>
    ELSE IF RLess(Head(s)[key], x[key]) THEN <<x>> \o s
    ELSE <<Head(s)>> \o InsertDesc(x, Tail(s), key)

\* Mutant of SortDesc: the sort is left out.
SortDescOmitted(s, key) == s

RECURSIVE SortDesc(_, _)
SortDesc(s, key) ==
    IF s = <<>> THEN <<>>
    ELSE InsertDesc(s[Len(s)], SortDesc(SubSeq(s, 1, Len(s) - 1), key), key)

(***************************************************************************)
(* Weighted score combination.                                             *)
(***************************************************************************)
\* es_lookup after the `if es_results:` block: result id -> the record plus
\* its normalized score.  A later record with the same id replaces an
\* earlier one.
EsLookup(results, cfg) ==
    LET norm_es_scores == NormalizeBy(cfg, EsScores(results))
    IN  [rid \in ResultIds(results) |->
            LET i == LastIndexOf(results, rid)
            IN  With(results[i], "es_norm_score", norm_es_scores[i])]

\* vector_lookup after the `if vector_results:` block.
VectorLookup(results, cfg) ==
    LET norm_sim_scores == NormalizeBy(cfg, Similarities(results))
    IN  [rid \in ResultIds(results) |->
            LET i == LastIndexOf(results, rid)
            IN  With(results[i], "vector_norm_score", norm_sim_scores[i])]

\* Mutant of WeightedScore: the two weights are exchanged.
WeightedScoreSwapped(cfg, vec_score, es_score) ==
    RAdd(RMul(cfg.keyword_weight, vec_score), RMul(cfg.semantic_weight, es_score))

\* config.semantic_weight * vec_score + config.keyword_weight * es_score
WeightedScore(cfg, vec_score, es_score) ==
    RAdd(RMul(cfg.semantic_weight, vec_score), RMul(cfg.keyword_weight, es_score))

\* One pass of the `for result_id in all_ids` loop body, up to the threshold
\* test.  es_data / vector_data are <<>> where the code has None.
WeightedRecord(rid, es_lookup, vector_lookup, cfg) ==
    LET in_es == rid \in DOMAIN es_lookup
        in_vector == rid \in DOMAIN vector_lookup
        es_data == IF in_es THEN es_lookup[rid] ELSE <<>>
        vector_data == IF in_vector THEN vector_lookup[rid] ELSE <<>>
        base == IF in_es /\ in_vector THEN Merge(es_data, vector_data)
                ELSE IF in_es THEN es_data
                ELSE vector_data
        es_score == IF in_es THEN Get(es_data, "es_norm_score", Zero) ELSE Zero
        vec_score == IF in_vector THEN Get(vector_data, "vector_norm_score", Zero)
                     ELSE Zero
    IN  Merge(base,
              "hybrid_score" :> WeightedScore(cfg, vec_score, es_score)
              @@ "es_norm_score" :> es_score
              @@ "vector_norm_score" :> vec_score
              @@ "_hybrid_source" :> [in_es |-> in_es, in_vector |-> in_vector])

\* Mutant of PassesThreshold: the comparison is turned around.
PassesThresholdReversed(rec, cfg) == RLeq(rec["hybrid_score"], cfg.min_score_threshold)

\* `if hybrid_score >= config.min_score_threshold: combined.append(base)`
PassesThreshold(rec, cfg) == RLeq(cfg.min_score_threshold, rec["hybrid_score"])

\* all_ids = set(es_lookup.keys()) | set(vector_lookup.keys())
AllIds(es, vec) == ResultIds(es) \cup ResultIds(vec)

\* order: the order in which `for result_id in all_ids` visits the set.
_rank_weighted(es, vec, cfg, order) ==
    LET es_lookup == EsLookup(es, cfg)
        vector_lookup == VectorLookup(vec, cfg)
        built == [i \in 1..Len(order) |->
                     WeightedRecord(order[i], es_lookup, vector_lookup, cfg)]
        Keep(rec) == PassesThreshold(rec, cfg)
        combined == SelectSeq(built, Keep)
    IN  ApplyMaxResults(SortDesc(combined, "hybrid_score"), cfg)

(***************************************************************************)
(* Reciprocal Rank Fusion.                                                 *)
(***************************************************************************)
\* Mutant of InsertionOrder: every occurrence is kept, as a list of ids
\* would keep them.
InsertionOrderRepeating(s) == [i \in 1..Len(s) |-> _extract_result_id(s[i])]

\* The keys of a dict in insertion order, after the ids of s were inserted
\* front to back.
RECURSIVE InsertionOrder(_)
InsertionOrder(s) ==
    IF s = <<>> THEN <<>>
    ELSE LET front == InsertionOrder(SubSeq(s, 1, Len(s) - 1))
             rid == _extract_result_id(s[Len(s)])
         IN  IF rid \in Range(front) THEN front ELSE Append(front, rid)

\* Mutant of RankContribution: ranks start at 0 (enumerate without start=1).
RankContributionFromZero(results, rid, k) ==
    SeqSum([i \in 1..Len(results) |->
               IF _extract_result_id(results[i]) = rid THEN Rat(1, k + i - 1) ELSE Zero])

\* What the loop over one list adds to rrf_scores[rid]: 1.0 / (k + rank) for
\* every rank at which the list holds rid.
RankContribution(results, rid, k) ==
    SeqSum([i \in 1..Len(results) |->
               IF _extract_result_id(results[i]) = rid THEN Rat(1, k + i) ELSE Zero])

\* result_data[rid] after vector_results[1..n] were processed: the first
\* keyword record with that id if there is one, updated with every vector
\* record with that id in list order.
RECURSIVE ResultData(_, _, _, _)
ResultData(es, vec, rid, n) ==
    IF n = 0
    THEN IF rid \in ResultIds(es) THEN es[FirstIndexOf(es, rid)] ELSE <<>>
    ELSE LET before == ResultData(es, vec, rid, n - 1)
         IN  IF _extract_result_id(vec[n]) = rid THEN Merge(before, vec[n]) ELSE before

\* result_data[rid] after `result['rrf_score'] = rrf_score` and
\* `result['hybrid_score'] = rrf_score`.
RrfCombined(es, vec, cfg, rid) ==
    LET k == cfg.rrf_k
        rrf_score == RAdd(RankContribution(es, rid, k), RankContribution(vec, rid, k))
    IN  Merge(ResultData(es, vec, rid, Len(vec)),
              "rrf_score" :> rrf_score @@ "hybrid_score" :> rrf_score)

_rank_rrf(es, vec, cfg) ==
    LET keys == InsertionOrder(es \o vec)
        combined == [i \in 1..Len(keys) |-> RrfCombined(es, vec, cfg, keys[i])]
    IN  ApplyMaxResults(SortDesc(combined, "rrf_score"), cfg)

(***************************************************************************)
(* hybrid_search, the entry point.                                         *)
(***************************************************************************)
\* Mutant of VectorOnly: the semantic weight is applied to the lone source.
VectorOnlyWeighted(vec, cfg) ==
    LET norm_scores == _normalize_scores_minmax(Similarities(vec))
        results == [i \in 1..Len(vec) |->
                       Merge(vec[i],
                             "hybrid_score" :> RMul(cfg.semantic_weight, norm_scores[i])
                             @@ "vector_norm_score" :> norm_scores[i]
                             @@ "es_norm_score" :> Zero)]
    IN  ApplyMaxResults(SortDesc(results, "hybrid_score"), cfg)

\* `if not es_results:` branch: the vector results alone.
VectorOnly(vec, cfg) ==
    LET norm_scores == _normalize_scores_minmax(Similarities(vec))
        results == [i \in 1..Len(vec) |->
                       Merge(vec[i],
                             "hybrid_score" :> norm_scores[i]
                             @@ "vector_norm_score" :> norm_scores[i]
                             @@ "es_norm_score" :> Zero)]
    IN  ApplyMaxResults(SortDesc(results, "hybrid_score"), cfg)

\* `if not vector_results:` branch: the keyword results alone.
EsOnly(es, cfg) ==
    LET norm_scores == _normalize_scores_minmax(EsScores(es))
        results == [i \in 1..Len(es) |->
                       Merge(es[i],
                             "hybrid_score" :> norm_scores[i]
                             @@ "es_norm_score" :> norm_scores[i]
                             @@ "vector_norm_score" :> Zero)]
    IN  ApplyMaxResults(SortDesc(results, "hybrid_score"), cfg)

(***************************************************************************)
(* The caller's objects after the call.  The shortcuts write into no       *)
(* existing dict.  _rank_weighted writes the scores into `base`, which is  *)
(* a lookup entry or a merge of two; _rank_rrf updates and writes the      *)
(* scores into result_data[result_id].                                     *)
(***************************************************************************)
Local == <<"local", 0>>

\* The input record that first brings rid into result_data.
RrfFirstRecord(es, vec, rid) ==
    IF rid \in ResultIds(es) THEN <<"es", FirstIndexOf(es, rid)>>
    ELSE <<"vector", FirstIndexOf(vec, rid)>>

\* Mutant of RrfResultDataOwner: `result_data[result_id] = result`, the
\* caller's record itself.
RrfResultDataAliased(es, vec, rid) == RrfFirstRecord(es, vec, rid)

\* `result_data[result_id] = {**result}`: a new dict.
RrfResultDataOwner(es, vec, rid) == Local

\* es_lookup[result_id] and vector_lookup[result_id] are new dicts
\* ({**result, ...}), and `base` is one of them or {**es_data, **vector_data}.
WeightedBaseOwner(es, vec, rid) == Local

\* The list `results` (es or vec, named by src) as the caller finds it
\* after the call returned.
ArgAfter(src, results, es, vec, cfg) ==
    [i \in 1..Len(results) |->
        IF es = <<>> \/ vec = <<>> THEN results[i]
        ELSE LET rid == _extract_result_id(results[i])
             IN  IF cfg.method = "rrf"
                 THEN IF RrfResultDataOwner(es, vec, rid) = <<src, i>>
                      THEN RrfCombined(es, vec, cfg, rid)
                      ELSE results[i]
                 ELSE IF WeightedBaseOwner(es, vec, rid) = <<src, i>>
                      THEN WeightedRecord(rid, EsLookup(es, cfg), VectorLookup(vec, cfg), cfg)
                      ELSE results[i]]

\* Mutant of Raised: the early return for two empty lists left out, and the
\* normalizers taking min() of an empty list.
RaisedOnEmptyList(es, vec, cfg) ==
    IF es = <<>> \/ vec = <<>> THEN "ValueError"
    ELSE IF \E i \in 1..Len(es) : ExtractResultIdRaises(es[i]) THEN "TypeError"
    ELSE IF \E i \in 1..Len(vec) : ExtractResultIdRaises(vec[i]) THEN "TypeError"
    ELSE "none"

\* The class of the exception hybrid_search(query, es, vec, cfg) raises,
\* "none" when it returns.  Only _rank_weighted and _rank_rrf look at the
\* result ids, and both do so for every record of both lists.
Raised(es, vec, cfg) ==
    IF es = <<>> /\ vec = <<>> THEN "none"
    ELSE IF es = <<>> THEN "none"
    ELSE IF vec = <<>> THEN "none"
    ELSE IF \E i \in 1..Len(es) : ExtractResultIdRaises(es[i]) THEN "TypeError"
    ELSE IF \E i \in 1..Len(vec) : ExtractResultIdRaises(vec[i]) THEN "TypeError"
    ELSE "none"

\* True when the call reaches _rank_weighted, the one place that iterates a set.
ReachesWeighted(es, vec, cfg) == es # <<>> /\ vec # <<>> /\ cfg.method # "rrf"

\* Mutant of hybrid_search: an empty query is answered with no results.
hybrid_searchEmptyQuery(query, es, vec, cfg, order) ==
    IF query = "" THEN <<>>
    ELSE IF es = <<>> /\ vec = <<>> THEN <<>>
    ELSE IF es = <<>> THEN VectorOnly(vec, cfg)
    ELSE IF vec = <<>> THEN EsOnly(es, cfg)
    ELSE IF cfg.method = "rrf" THEN _rank_rrf(es, vec, cfg)
    ELSE _rank_weighted(es, vec, cfg, order)

\* query is only passed to the logger.
hybrid_search(query, es, vec, cfg, order) ==
    IF es = <<>> /\ vec = <<>> THEN <<>>
    ELSE IF es = <<>> THEN VectorOnly(vec, cfg)
    ELSE IF vec = <<>> THEN EsOnly(es, cfg)
    ELSE IF cfg.method = "rrf" THEN _rank_rrf(es, vec, cfg)
    ELSE _rank_weighted(es, vec, cfg, order)

\* The orders in which a call may iterate all_ids.
IterOrders(es, vec, cfg) ==
    IF ReachesWeighted(es, vec, cfg) THEN Perms(AllIds(es, vec)) ELSE {<<>>}

(***************************************************************************)
(* The inputs of the model.                                                *)
(***************************************************************************)
Ids == {"a", "b"}

\* Keyword candidates {"id": .., "score": ..} with a BM25 score, and one
\* candidate without an id field.
EsRecords ==
    {"id" :> id @@ "score" :> s : id \in Ids, s \in {Rat(0, 1), Rat(2, 1)}}
    \cup {"score" :> Rat(1, 1)}

\* Vector candidates {"id": .., "distance": ..} with a distance (one of
\* them above 1), and one candidate without an id field.
VectorRecords ==
    {"id" :> id @@ "distance" :> d : id \in Ids, d \in {Rat(1, 2), Rat(3, 2)}}
    \cup {"distance" :> Rat(0, 1)}

Lists(records, n) == [1..n -> records]

Weights == {Rat(1, 2), Rat(7, 10)}
Thresholds == {Zero, Half}
MaxResultsChoices == {<<>>, <<0>>, <<2>>}

\* Configurations that reach _rank_weighted when both lists are non-empty.
WeightedConfigs ==
    {HybridSearchConfig(sw, RSub(One, sw), "weighted", DefaultRrfK, nm, thr, mr) :
        sw \in Weights, nm \in {"minmax", "standard"}, thr \in Thresholds,
        mr \in MaxResultsChoices}

\* Configurations that reach _rank_rrf when both lists are non-empty.
RrfConfigs ==
    {HybridSearchConfig(Rat(7, 10), Rat(3, 10), "rrf", k, "minmax", thr, mr) :
        k \in {1, DefaultRrfK}, thr \in Thresholds, mr \in MaxResultsChoices}

Configs == WeightedConfigs \cup RrfConfigs

VARIABLES es_results, vector_results, config, out, pc, exc

vars == <<es_results, vector_results, config, out, pc, exc>>

\* The caller holds the arguments of a call; nothing was returned yet.
Init ==
    /\ \E n \in 0..MaxTotal : \E m \in 0..(MaxTotal - n) :
          /\ es_results \in Lists(EsRecords, n)
          /\ vector_results \in Lists(VectorRecords, m)
    /\ config \in Configs
    /\ out = <<>>
    /\ pc = "ready"
    /\ exc = "none"

\* One call hybrid_search(query, es_results, vector_results, config); the
\* caller may repeat it with the same arguments.
HybridSearchCall(query) ==
    /\ LET e == Raised(es_results, vector_results, config)
       IN  IF e = "none"
           THEN /\ \E order \in IterOrders(es_results, vector_results, config) :
                      out' = hybrid_search(query, es_results, vector_results, config, order)
                /\ pc' = "returned"
                /\ exc' = "none"
                /\ es_results' =
                       ArgAfter("es", es_results, es_results, vector_results, config)
                /\ vector_results' =
                       ArgAfter("vector", vector_results, es_results, vector_results, config)
           ELSE /\ pc' = "raised"
                /\ exc' = e
                /\ out' = <<>>
                /\ UNCHANGED <<es_results, vector_results>>
    /\ config' = config

\* The call with one query string.
HybridSearch == HybridSearchCall("q")

Next == HybridSearch

Spec == Init /\ [][Next]_vars

(***************************************************************************)
(* Two calls running at the same time on the same two list objects, each   *)
(* with a config of its own.  Here config, out, pc and exc hold one value  *)
(* per call.  A call first reads the lists into dicts of its own (the      *)
(* lookups of _rank_weighted, result_data of _rank_rrf, result_copy of the *)
(* shortcuts), then writes the scores into the dicts it ranks, sorts and   *)
(* returns; the other call may run between the two.                        *)
(***************************************************************************)
Threads == {1, 2}

ConcurrentConfigs ==
    {HybridSearchConfig(Rat(7, 10), Rat(3, 10), m, DefaultRrfK, "minmax", Zero, <<>>) :
        m \in {"weighted", "rrf"}}

ConcurrentInit ==
    /\ \E n \in 0..MaxTotal : \E m \in 0..(MaxTotal - n) :
          /\ es_results \in Lists(EsRecords, n)
          /\ vector_results \in Lists(VectorRecords, m)
    /\ config \in [Threads -> ConcurrentConfigs]
    /\ out = [t \in Threads |-> <<>>]
    /\ pc = [t \in Threads |-> "ready"]
    /\ exc = [t \in Threads |-> "none"]

\* Call t reads both lists: out[t] holds what it will return.
Read(t) ==
    /\ pc[t] = "ready"
    /\ LET e == Raised(es_results, vector_results, config[t])
       IN  IF e = "none"
           THEN /\ \E order \in IterOrders(es_results, vector_results, config[t]) :
                      out' = [out EXCEPT ![t] =
                                 hybrid_search("q", es_results, vector_results,
                                               config[t], order)]
                /\ pc' = [pc EXCEPT ![t] = "merging"]
                /\ exc' = exc
           ELSE /\ pc' = [pc EXCEPT ![t] = "raised"]
                /\ exc' = [exc EXCEPT ![t] = e]
                /\ out' = out
    /\ UNCHANGED <<es_results, vector_results, config>>

\* Call t writes the scores into the dicts it ranks, and returns.
Finish(t) ==
    /\ pc[t] = "merging"
    /\ es_results' = ArgAfter("es", es_results, es_results, vector_results, config[t])
    /\ vector_results' =
           ArgAfter("vector", vector_results, es_results, vector_results, config[t])
    /\ pc' = [pc EXCEPT ![t] = "returned"]
    /\ UNCHANGED <<config, out, exc>>

ConcurrentNext ==
    \/ \E t \in Threads : Read(t)
    \/ \E t \in Threads : Finish(t)

ConcurrentSpec == ConcurrentInit /\ [][ConcurrentNext]_vars

(***************************************************************************)
(* Calls whose candidates carry attributes besides id and score: strings,  *)
(* and lists, which Python cannot hash.                                    *)
(***************************************************************************)
\* Query strings, the empty one among them.
Queries == {"", "q", "invoice payment"}

PyStr(text) == [type |-> "str", repr |-> text]
PyList(text) == [type |-> "list", repr |-> text]

\* Keyword candidates: two with an id, sharing the key "subject" with the
\* vector candidates, and two without an id, one of them holding a list.
DataEsRecords ==
    {"id" :> "a" @@ "score" :> Rat(2, 1)
        @@ "subject" :> PyStr("Invoice") @@ "folder" :> PyStr("inbox"),
     "id" :> "b" @@ "score" :> Rat(0, 1)
        @@ "subject" :> PyStr("Payment") @@ "labels" :> PyList("['x']"),
     "score" :> Rat(1, 1) @@ "subject" :> PyStr("Draft"),
     "score" :> Rat(1, 1) @@ "labels" :> PyList("['x']"),
     "id" :> "c" @@ "subject" :> PyStr("Unscored")}

DataVectorRecords ==
    {"id" :> "a" @@ "distance" :> Rat(1, 2)
        @@ "subject" :> PyStr("Invoice (stored)") @@ "document" :> PyStr("Invoice attached"),
     "id" :> "b" @@ "distance" :> Rat(3, 2) @@ "document" :> PyStr("Payment details"),
     "distance" :> Rat(0, 1) @@ "document" :> PyStr("Orphan"),
     "distance" :> Rat(0, 1) @@ "labels" :> PyList("['y']"),
     "id" :> "c" @@ "document" :> PyStr("Unmeasured")}

DataConfigs ==
    {HybridSearchConfig(Rat(7, 10), Rat(3, 10), m, DefaultRrfK, "minmax", Zero, mr) :
        m \in {"weighted", "rrf"}, mr \in {<<>>, <<2>>}}

DataInit ==
    /\ \E n \in 0..MaxTotal : \E m \in 0..(MaxTotal - n) :
          /\ es_results \in Lists(DataEsRecords, n)
          /\ vector_results \in Lists(DataVectorRecords, m)
    /\ config \in DataConfigs
    /\ out = <<>>
    /\ pc = "ready"
    /\ exc = "none"

\* The call with a query string of the caller's choosing.
HybridSearchAnyQuery == \E query \in Queries : HybridSearchCall(query)

DataNext == HybridSearchAnyQuery

DataSpec == DataInit /\ [][DataNext]_vars

(***************************************************************************)
(* Calls on the inputs of the documented examples.                         *)
(***************************************************************************)
\* HybridSearchConfig(): every field at its default.
DefaultConfig ==
    HybridSearchConfig(Rat(7, 10), Rat(3, 10), "weighted", DefaultRrfK, "minmax", Zero, <<>>)

EsHit(id, score) == "id" :> id @@ "score" :> score
VectorHit(id, distance) == "id" :> id @@ "distance" :> distance

\* example_basic_usage: BM25 scores 15.2, 12.8, 8.5 and cosine distances
\* 0.12, 0.18, 0.25, the second keyword hit being the first vector hit.
BasicEs == <<EsHit("e1", Rat(152, 10)), EsHit("e2", Rat(128, 10)), EsHit("e3", Rat(85, 10))>>
BasicVector ==
    <<VectorHit("e2", Rat(12, 100)), VectorHit("e4", Rat(18, 100)), VectorHit("e5", Rat(25, 100))>>

\* The example of hybrid_search's docstring.
DocstringEs == <<EsHit("email-1", Rat(125, 10)), EsHit("email-2", Rat(83, 10))>>
DocstringVector == <<VectorHit("email-2", Rat(15, 100)), VectorHit("email-3", Rat(22, 100))>>

\* example_custom_weighting.
CustomEs == <<EsHit("email-1", Rat(20, 1)), EsHit("email-2", Rat(15, 1))>>
CustomVector == <<VectorHit("email-2", Rat(8, 100)), VectorHit("email-3", Rat(15, 100))>>

ScenarioInputs ==
    {<<BasicEs, BasicVector>>, <<DocstringEs, DocstringVector>>, <<CustomEs, CustomVector>>}

ScenarioConfigs ==
    {HybridSearchConfig(sw, RSub(One, sw), m, DefaultRrfK, "minmax", thr, mr) :
        sw \in {Rat(3, 10), Half, Rat(7, 10), Rat(8, 10)}, m \in {"weighted", "rrf"},
        thr \in {Zero, Rat(9, 10)}, mr \in {<<>>, <<5>>}}

ScenarioInit ==
    /\ \E input \in ScenarioInputs :
          /\ es_results = input[1]
          /\ vector_results = input[2]
    /\ config \in ScenarioConfigs
    /\ out = <<>>
    /\ pc = "ready"
    /\ exc = "none"

ScenarioSpec == ScenarioInit /\ [][Next]_vars

(***************************************************************************)
(* The normalizers on their own: the keyword scores of a list are          *)
(* extracted and normalized, as the first block of _rank_weighted does.    *)
(***************************************************************************)
\* Scores far apart; scores 5e-10 apart, closer than 1e-9; scores 2e-9
\* apart, just farther.
CoarseScores == {Zero, Half, One, Rat(2, 1)}
CloseScores == {Zero, Rat(1, 2 * EpsDen)}
ApartScores == {Zero, Rat(2, EpsDen)}

NormInit ==
    /\ \E nm \in {"minmax", "standard"} :
          /\ config = [DefaultConfig EXCEPT !.normalize_method = nm]
          /\ \E scores \in (IF nm = "minmax"
                             THEN {CoarseScores, CloseScores, ApartScores}
                             ELSE {CoarseScores}) :
                \E n \in 0..MaxTotal :
                    es_results \in Lists({EsHit("a", x) : x \in scores}, n)
    /\ vector_results = <<>>
    /\ out = <<>>
    /\ pc = "ready"
    /\ exc = "none"

\* es_scores = [_extract_es_score(r) for r in es_results], then the
\* normalizer config.normalize_method names.
NormalizeEsScores ==
    /\ pc = "ready"
    /\ out' = NormalizeBy(config, EsScores(es_results))
    /\ pc' = "normalized"
    /\ UNCHANGED <<es_results, vector_results, config, exc>>

NormNext == NormalizeEsScores

NormSpec == NormInit /\ [][NormNext]_vars

(***************************************************************************)
(* Construction of a configuration.  The caller passes field values of its *)
(* choosing to HybridSearchConfig(...); the dataclass stores them and runs *)
(* __post_init__.                                                          *)
(***************************************************************************)
WeightArgs == {Rat(-1, 10), Zero, Rat(3, 10), Half, Rat(7, 10), One, Rat(11, 10)}
\* Also 0.3000005 and 0.300002, which miss 1 - 0.7 by less and by more than 1e-6.
KeywordWeightArgs == WeightArgs \cup {Rat(600001, 2000000), Rat(300002, 1000000)}
RrfKArgs == {-1, 0, 1, DefaultRrfK}
ThresholdArgs == {Rat(-1, 10), Zero, Half, One, Rat(11, 10)}

\* The caller holds the arguments of the constructor in config.
ConfigInit ==
    /\ \E sw \in WeightArgs, kw \in KeywordWeightArgs, k \in RrfKArgs, thr \in ThresholdArgs,
          m \in {"weighted", "rrf"} :
          config = HybridSearchConfig(sw, kw, m, k, "minmax", thr, <<>>)
    /\ es_results = <<>>
    /\ vector_results = <<>>
    /\ out = <<>>
    /\ pc = "ready"
    /\ exc = "none"

\* HybridSearchConfig(**config): the generated __init__ assigns the fields
\* as given and calls __post_init__, which returns or raises ValueError.
Construct ==
    /\ pc = "ready"
    /\ IF __post_init__(config) = "ok"
       THEN pc' = "constructed" /\ exc' = "none"
       ELSE pc' = "raised" /\ exc' = "ValueError"
    /\ config' = config
    /\ UNCHANGED <<es_results, vector_results, out>>

ConfigNext == Construct

ConfigSpec == ConfigInit /\ [][ConfigNext]_vars

\* config.<field> = value on a constructed configuration.  The class is a
\* plain @dataclass (not frozen), so the assignment stores the value;
\* __post_init__ runs in __init__ only.
SetAttr ==
    /\ pc = "constructed"
    /\ \/ \E v \in WeightArgs : config' = [config EXCEPT !.semantic_weight = v]
       \/ \E v \in KeywordWeightArgs : config' = [config EXCEPT !.keyword_weight = v]
       \/ \E v \in RrfKArgs : config' = [config EXCEPT !.rrf_k = v]
       \/ \E v \in ThresholdArgs : config' = [config EXCEPT !.min_score_threshold = v]
    /\ UNCHANGED <<es_results, vector_results, out, pc, exc>>

ConfigUseNext == Construct \/ SetAttr

\* A configuration from its construction on, through the assignments the
\* holder makes before passing it to hybrid_search.
ConfigUseSpec == ConfigInit /\ [][ConfigUseNext]_vars

(***************************************************************************)
(* Calls with weights at the edge of what __post_init__ accepts: the sum   *)
(* of the weights may miss 1.0 by up to 1e-6.  Each list holds at most one *)
(* record, which keeps the arithmetic on these weights within 32 bits.     *)
(***************************************************************************)
EdgeWeights ==
    {<<Rat(7, 10), Rat(3, 10)>>, <<Rat(7, 10), Rat(600001, 2000000)>>,
     <<Rat(7, 10), Rat(599999, 2000000)>>, <<One, Rat(1, 2000000)>>,
     <<One, Zero>>, <<Zero, One>>, <<Half, Half>>}

EdgeConfigs ==
    {c \in {HybridSearchConfig(w[1], w[2], "weighted", DefaultRrfK, nm, Zero, <<>>) :
                w \in EdgeWeights, nm \in {"minmax", "standard"}} :
        __post_init__(c) = "ok"}

EdgeInit ==
    /\ \E n \in 0..1 : es_results \in Lists(EsRecords, n)
    /\ \E m \in 0..1 : vector_results \in Lists(VectorRecords, m)
    /\ config \in EdgeConfigs
    /\ out = <<>>
    /\ pc = "ready"
    /\ exc = "none"

EdgeSpec == EdgeInit /\ [][Next]_vars

(***************************************************************************)
(* Vocabulary of the properties.                                           *)
(***************************************************************************)
Returned == pc = "returned"
BothNonEmpty == es_results # <<>> /\ vector_results # <<>>
OneEmpty == (es_results = <<>>) # (vector_results = <<>>)
IsWeighted == config.method = "weighted"
Uncapped == config.max_results = <<>>

\* The data model's invariant: within one provider's list, ids are unique.
UniqueIds(results) ==
    \A i, j \in 1..Len(results) :
        _extract_result_id(results[i]) = _extract_result_id(results[j]) => i = j
InputsUnique == UniqueIds(es_results) /\ UniqueIds(vector_results)

\* The fields hybrid_search adds to a record.
AddedKeys ==
    {"hybrid_score", "es_norm_score", "vector_norm_score", "_hybrid_source", "rrf_score"}
\* The id of a returned record: the id (or fallback identifier) of the
\* candidate fields it carries.
OutId(rec) == _extract_result_id([k \in DOMAIN rec \ AddedKeys |-> rec[k]])
OutIds == {OutId(out[i]) : i \in 1..Len(out)}
InputIds == ResultIds(es_results) \cup ResultIds(vector_results)
SharedIds == ResultIds(es_results) \cap ResultIds(vector_results)

\* 1-based position of rid in a list that holds it once.
Pos(results, rid) == CHOOSE i \in 1..Len(results) : _extract_result_id(results[i]) = rid

\* Normalized score of rid over its own source's full list, 0.0 if absent.
KeywordNorm(rid, norm) ==
    IF rid \in ResultIds(es_results) THEN norm[Pos(es_results, rid)] ELSE Zero
SemanticNorm(rid, norm) ==
    IF rid \in ResultIds(vector_results) THEN norm[Pos(vector_results, rid)] ELSE Zero

\* semantic_weight * semantic_norm + keyword_weight * keyword_norm
FusedScore(rid) ==
    RAdd(RMul(config.semantic_weight,
              SemanticNorm(rid, NormalizeBy(config, Similarities(vector_results)))),
         RMul(config.keyword_weight,
              KeywordNorm(rid, NormalizeBy(config, EsScores(es_results)))))

\* MinMax-normalized score of rid within the one non-empty list.
ShortcutScore(rid) ==
    IF es_results = <<>>
    THEN SemanticNorm(rid, _normalize_scores_minmax(Similarities(vector_results)))
    ELSE KeywordNorm(rid, _normalize_scores_minmax(EsScores(es_results)))

\* The hybrid_score the Weighted method gives rid.
WeightedHybrid(rid) == IF BothNonEmpty THEN FusedScore(rid) ELSE ShortcutScore(rid)

\* Sum over the sources containing rid of 1/(rrf_k + rank), rank the 1-based
\* position in the list as passed in.
ReciprocalRankSum(rid) ==
    RAdd(IF rid \in ResultIds(es_results)
         THEN Rat(1, config.rrf_k + Pos(es_results, rid)) ELSE Zero,
         IF rid \in ResultIds(vector_results)
         THEN Rat(1, config.rrf_k + Pos(vector_results, rid)) ELSE Zero)

\* Place at which rid is first met while merging, keyword list first.
Encounter(rid) ==
    IF rid \in ResultIds(es_results) THEN Pos(es_results, rid)
    ELSE Len(es_results) + Pos(vector_results, rid)

(***************************************************************************)
(* C1  No duplication: when ids are unique within each input list, every   *)
(* id appears at most once in the returned list, ids found in both lists   *)
(* included.                                                               *)
(***************************************************************************)
NoDuplication ==
    (Returned /\ InputsUnique) =>
        \A i, j \in 1..Len(out) : OutId(out[i]) = OutId(out[j]) => i = j

\* A call returned a record for an id that both lists hold.
NoDuplicationWitness ==
    /\ Returned /\ InputsUnique /\ BothNonEmpty
    /\ \E i \in 1..Len(out) : OutId(out[i]) \in SharedIds

(***************************************************************************)
(* C2  Completeness: the returned ids are the union of the input ids,      *)
(* minus exactly the ids whose hybrid_score is below min_score_threshold   *)
(* when the method is Weighted; under RRF no id is removed.  Stated where  *)
(* max_results is unset, so that no truncation is involved, and where ids  *)
(* are unique within each list.                                            *)
(***************************************************************************)
Completeness ==
    (Returned /\ Uncapped /\ InputsUnique) =>
        OutIds = {rid \in InputIds :
                     ~(IsWeighted /\ RLess(WeightedHybrid(rid), config.min_score_threshold))}

(***************************************************************************)
(* C3  Tie-break: two returned records with equal hybrid_score appear in   *)
(* the order in which their ids were first met while merging (keyword      *)
(* list before semantic list), under Weighted as under RRF.                *)
(***************************************************************************)
TieBreak ==
    (Returned /\ InputsUnique) =>
        \A i, j \in 1..Len(out) :
            (i < j /\ out[i]["hybrid_score"] = out[j]["hybrid_score"])
                => Encounter(OutId(out[i])) < Encounter(OutId(out[j]))

(***************************************************************************)
(* C4  Determinism: a call repeated with identical inputs and config       *)
(* returns the identical list (same order, same scores), whatever order    *)
(* the id set is iterated in.                                              *)
(***************************************************************************)
Determinism == [][Returned => out' = out]_vars

(***************************************************************************)
(* C5  Weighted Linear Fusion: with both lists non-empty and the Weighted  *)
(* method, every id gets hybrid_score = semantic_weight * semantic_norm +  *)
(* keyword_weight * keyword_norm, each norm taken over the id's own        *)
(* source's full list and 0.0 for a source without the id.                 *)
(***************************************************************************)
WeightedFusion ==
    (Returned /\ BothNonEmpty /\ IsWeighted /\ InputsUnique) =>
        /\ \A i \in 1..Len(out) : out[i]["hybrid_score"] = FusedScore(OutId(out[i]))
        /\ Uncapped =>
              \A rid \in InputIds :
                  RLeq(config.min_score_threshold, FusedScore(rid)) => rid \in OutIds

\* An id of both lists was returned with a score that mixes two non-zero norms.
WeightedFusionWitness ==
    /\ Returned /\ BothNonEmpty /\ IsWeighted /\ InputsUnique
    /\ \E i \in 1..Len(out) :
          /\ OutId(out[i]) \in SharedIds
          /\ out[i]["es_norm_score"] # Zero
          /\ out[i]["vector_norm_score"] # Zero
          /\ out[i]["hybrid_score"] # One

(***************************************************************************)
(* C6  Reciprocal Rank Fusion: with both lists non-empty and the RRF       *)
(* method, every id gets rrf_score = sum over the sources containing it of *)
(* 1/(rrf_k + rank), rank being its 1-based position in the list as passed *)
(* in, and hybrid_score = rrf_score.                                       *)
(***************************************************************************)
ReciprocalRankFusion ==
    (Returned /\ BothNonEmpty /\ ~IsWeighted /\ InputsUnique) =>
        /\ \A i \in 1..Len(out) :
              /\ out[i]["rrf_score"] = ReciprocalRankSum(OutId(out[i]))
              /\ out[i]["hybrid_score"] = out[i]["rrf_score"]
        /\ Uncapped => OutIds = InputIds

\* An id ranked second by a keyword list that is not in score order, and
\* also found by the vector list, was returned.
ReciprocalRankFusionWitness ==
    /\ Returned /\ BothNonEmpty /\ ~IsWeighted /\ InputsUnique
    /\ Len(es_results) >= 2
    /\ RLess(_extract_es_score(es_results[1]), _extract_es_score(es_results[2]))
    /\ \E i \in 1..Len(out) :
          /\ OutId(out[i]) = _extract_result_id(es_results[2])
          /\ OutId(out[i]) \in SharedIds

(***************************************************************************)
(* C7  Minimum-score cutoff: with the Weighted method, whether both lists  *)
(* or only one of them is non-empty, no returned record has hybrid_score   *)
(* below min_score_threshold, and no id whose hybrid_score reaches the     *)
(* threshold is dropped by the cutoff.                                     *)
(***************************************************************************)
MinScoreCutoff ==
    (Returned /\ IsWeighted) =>
        /\ \A i \in 1..Len(out) :
              RLeq(config.min_score_threshold, out[i]["hybrid_score"])
        /\ (Uncapped /\ InputsUnique) =>
              \A rid \in InputIds :
                  RLeq(config.min_score_threshold, WeightedHybrid(rid)) => rid \in OutIds

(***************************************************************************)
(* C8  Result cap: when max_results is an integer N, N = 0 included, the   *)
(* returned list is the first N elements (all, if fewer) of the list       *)
(* obtained after cutoff and sort, so it is never longer than N.           *)
(***************************************************************************)
ResultCap ==
    (Returned /\ ~Uncapped) =>
        /\ Len(out) <= config.max_results[1]
        /\ \E order \in IterOrders(es_results, vector_results, config) :
              LET full == hybrid_search("q", es_results, vector_results,
                                        [config EXCEPT !.max_results = <<>>], order)
              IN  out = SubSeq(full, 1, Min2(config.max_results[1], Len(full)))

(***************************************************************************)
(* C9  Ordering: on every path, hybrid_score is non-increasing from the    *)
(* first returned record to the last.                                      *)
(***************************************************************************)
Ordering ==
    Returned =>
        \A i \in 1..(Len(out) - 1) :
            RLeq(out[i + 1]["hybrid_score"], out[i]["hybrid_score"])

\* A call returned, best first, two records whose sources listed them the
\* other way round.
OrderingWitness ==
    /\ Returned /\ InputsUnique /\ Len(out) >= 2
    /\ RLess(out[2]["hybrid_score"], out[1]["hybrid_score"])
    /\ Encounter(OutId(out[2])) < Encounter(OutId(out[1]))

(***************************************************************************)
(* C10  Single-source shortcut: when exactly one list is empty, whatever   *)
(* the weights and the method, each result of the other list gets          *)
(* hybrid_score = its MinMax-normalized score within that list (distances  *)
(* first turned into similarities), the empty source's norm score is 0.0,  *)
(* no weight is applied, and the results are returned best first: all of   *)
(* them when max_results is unset, the leading ones otherwise.             *)
(***************************************************************************)
\* The result the shortcut builds from record i of the non-empty list.
ShortcutResult(i) ==
    IF es_results = <<>>
    THEN LET n == _normalize_scores_minmax(Similarities(vector_results))[i]
         IN  Merge(vector_results[i],
                   [hybrid_score |-> n, vector_norm_score |-> n, es_norm_score |-> Zero])
    ELSE LET n == _normalize_scores_minmax(EsScores(es_results))[i]
         IN  Merge(es_results[i],
                   [hybrid_score |-> n, es_norm_score |-> n, vector_norm_score |-> Zero])

SingleSourceShortcut ==
    (Returned /\ OneEmpty) =>
        LET n == Len(es_results) + Len(vector_results)
        IN  /\ Len(out) <= n
            /\ Uncapped => Len(out) = n
            /\ \E p \in Perms(1..n) : \A k \in 1..Len(out) : out[k] = ShortcutResult(p[k])
            /\ \A k \in 1..(Len(out) - 1) :
                  RLeq(out[k + 1]["hybrid_score"], out[k]["hybrid_score"])

\* The vector list alone was ranked under weights 1/2 : 1/2, and its best
\* record, not the first of the list, came back with hybrid_score 1.0.
SingleSourceShortcutWitness ==
    /\ Returned /\ es_results = <<>> /\ Len(vector_results) >= 2
    /\ config.semantic_weight = Half
    /\ Len(out) >= 2
    /\ out[1]["hybrid_score"] = One
    /\ out[1]["vector_norm_score"] = One
    /\ out[1]["es_norm_score"] = Zero
    /\ OutId(out[1]) # _extract_result_id(vector_results[1])

(***************************************************************************)
(* C11  Both sources empty: a call with two empty lists returns the empty  *)
(* list and raises nothing, whatever the method, the threshold and         *)
(* max_results of the config.                                              *)
(***************************************************************************)
BothSourcesEmpty ==
    (pc # "ready" /\ es_results = <<>> /\ vector_results = <<>>) =>
        (pc = "returned" /\ exc = "none" /\ out = <<>>)

\* A call with two empty lists returned under RRF with a threshold and a cap.
BothSourcesEmptyWitness ==
    /\ Returned /\ es_results = <<>> /\ vector_results = <<>>
    /\ config.method = "rrf"
    /\ config.min_score_threshold = Half
    /\ config.max_results = <<2>>
    /\ out = <<>>

(***************************************************************************)
(* C12  Config validation: constructing a HybridSearchConfig raises        *)
(* ValueError if and only if semantic_weight or keyword_weight is outside  *)
(* [0, 1], or |semantic_weight + keyword_weight - 1.0| > 1e-6, or          *)
(* rrf_k < 1, or min_score_threshold is outside [0, 1]; the fields keep    *)
(* the values given, none is corrected.                                    *)
(***************************************************************************)
\* The invariants of a configuration, as the claim lists them.
ValidConfig(cfg) ==
    /\ RLeq(Zero, cfg.semantic_weight) /\ RLeq(cfg.semantic_weight, One)
    /\ RLeq(Zero, cfg.keyword_weight) /\ RLeq(cfg.keyword_weight, One)
    /\ LET diff == RSub(RAdd(cfg.semantic_weight, cfg.keyword_weight), One)
       IN  Abs(diff[1]) <= diff[2] \div WeightTolDen
    /\ cfg.rrf_k >= 1
    /\ RLeq(Zero, cfg.min_score_threshold) /\ RLeq(cfg.min_score_threshold, One)

ConfigValidation ==
    [][/\ (pc' = "raised") <=> ~ValidConfig(config)
       /\ (pc' = "raised") => exc' = "ValueError"
       /\ (pc' # "raised") => (pc' = "constructed" /\ exc' = "none")
       /\ config' = config]_vars

\* The constructor raised for rrf_k = 0, every other field being valid.
ConfigValidationWitness ==
    /\ pc = "raised" /\ exc = "ValueError"
    /\ config.rrf_k = 0
    /\ ValidConfig([config EXCEPT !.rrf_k = 1])

(***************************************************************************)
(* C13  No exception for data content: with a valid config, no call of     *)
(* hybrid_search raises because of what the candidates contain; a          *)
(* candidate without "id" and "_id" gets a fallback identifier, whatever   *)
(* its other fields hold, and a list is returned.                          *)
(***************************************************************************)
NoDataException == (pc # "ready") => (pc = "returned" /\ exc = "none")

(***************************************************************************)
(* C14  Attribute merge precedence: for an id found in both lists, the     *)
(* returned record has the attribute keys of the keyword record and of the *)
(* vector record together, and under every key both records have it        *)
(* carries the vector record's value; under Weighted and under RRF.        *)
(***************************************************************************)
AttributeMerge ==
    (Returned /\ BothNonEmpty /\ InputsUnique) =>
        \A i \in 1..Len(out) :
            OutId(out[i]) \in SharedIds =>
                LET e == es_results[Pos(es_results, OutId(out[i]))]
                    v == vector_results[Pos(vector_results, OutId(out[i]))]
                IN  /\ DOMAIN out[i] \ AddedKeys = (DOMAIN e \cup DOMAIN v) \ AddedKeys
                    /\ \A k \in (DOMAIN e \cap DOMAIN v) \ AddedKeys : out[i][k] = v[k]

\* RRF returned a record for an id whose keyword and vector records
\* disagree on "subject" and each have a key the other lacks.
AttributeMergeWitness ==
    /\ Returned /\ BothNonEmpty /\ InputsUnique /\ ~IsWeighted
    /\ \E i \in 1..Len(out) :
          /\ OutId(out[i]) \in SharedIds
          /\ LET e == es_results[Pos(es_results, OutId(out[i]))]
                 v == vector_results[Pos(vector_results, OutId(out[i]))]
             IN  /\ "subject" \in DOMAIN e \cap DOMAIN v
                 /\ e["subject"] # v["subject"]
                 /\ out[i]["subject"] = v["subject"]
                 /\ "folder" \in DOMAIN out[i]
                 /\ "document" \in DOMAIN out[i]

(***************************************************************************)
(* C15  Source flags: every returned record, on every path and under every *)
(* method, carries _hybrid_source, whose in_es is true exactly when the    *)
(* record's id occurs in the keyword list and whose in_vector is true      *)
(* exactly when it occurs in the vector list.                              *)
(***************************************************************************)
SourceFlags ==
    Returned =>
        \A i \in 1..Len(out) :
            /\ "_hybrid_source" \in DOMAIN out[i]
            /\ out[i]["_hybrid_source"] =
                   [in_es |-> OutId(out[i]) \in ResultIds(es_results),
                    in_vector |-> OutId(out[i]) \in ResultIds(vector_results)]

(***************************************************************************)
(* C16  Concrete RRF scenario: for keyword results e1:15.2, e2:12.8,       *)
(* e3:8.5 and vector results e2:0.12, e4:0.18, e5:0.25 under RRF with      *)
(* rrf_k = 60, e2 is returned with rrf_score = 1/(60+2) + 1/(60+1), and    *)
(* that value is within 1e-4 of the literal 0.0330.                        *)
(***************************************************************************)
IsBasicScenario == es_results = BasicEs /\ vector_results = BasicVector

\* |x - literal| <= 1e-4
WithinTenThousandth(x, literal) ==
    /\ RLeq(RSub(x, literal), Rat(1, 10000))
    /\ RLeq(RSub(literal, x), Rat(1, 10000))

\* The scenario's statement about e2, against a literal value.
RrfScenarioAgainst(literal) ==
    (Returned /\ IsBasicScenario /\ ~IsWeighted /\ config.rrf_k = 60) =>
        /\ \E i \in 1..Len(out) : OutId(out[i]) = "e2"
        /\ \A i \in 1..Len(out) :
              OutId(out[i]) = "e2" =>
                  /\ out[i]["rrf_score"] = RAdd(Rat(1, 60 + 2), Rat(1, 60 + 1))
                  /\ WithinTenThousandth(out[i]["rrf_score"], literal)

\* C16 as stated: e2's rrf_score is 1/62 + 1/61, within 1e-4 of 0.0330.
RrfScenario == RrfScenarioAgainst(Rat(330, 10000))

\* C16 as amended: the value is within 1e-4 of 0.0325.
RrfScenarioAmended == RrfScenarioAgainst(Rat(325, 10000))

\* RRF with rrf_k = 60 returned e2 first on the scenario's inputs.
RrfScenarioWitness ==
    /\ Returned /\ IsBasicScenario /\ ~IsWeighted /\ config.rrf_k = 60
    /\ Len(out) = 5
    /\ OutId(out[1]) = "e2"

(***************************************************************************)
(* C17  Concrete Weighted scenario: on the same inputs under the default   *)
(* config (0.7 / 0.3 Weighted, MinMax) the output has exactly 5 distinct   *)
(* ids, e2 is its first element, and e2 is the only result whose source    *)
(* flags are both true.                                                    *)
(***************************************************************************)
WeightedScenario ==
    (Returned /\ IsBasicScenario /\ config = DefaultConfig) =>
        /\ Len(out) = 5
        /\ Cardinality(OutIds) = 5
        /\ OutId(out[1]) = "e2"
        /\ \A i \in 1..Len(out) :
              (out[i]["_hybrid_source"] = [in_es |-> TRUE, in_vector |-> TRUE])
                  <=> OutId(out[i]) = "e2"

\* The default config ranked the scenario's inputs; e4, found by the vector
\* list only, came second.
WeightedScenarioWitness ==
    /\ Returned /\ IsBasicScenario /\ config = DefaultConfig
    /\ Len(out) = 5
    /\ OutId(out[2]) = "e4"
    /\ out[2]["_hybrid_source"] = [in_es |-> FALSE, in_vector |-> TRUE]

(***************************************************************************)
(* C18  Concrete threshold scenario: on the same inputs under the default  *)
(* Weighted config with min_score_threshold = 0.9, the output holds at     *)
(* most one result, and if it holds one, it is the result that ranks first *)
(* without the threshold.                                                  *)
(***************************************************************************)
ThresholdScenario ==
    (Returned /\ IsBasicScenario
       /\ config = [DefaultConfig EXCEPT !.min_score_threshold = Rat(9, 10)]) =>
        /\ Len(out) <= 1
        /\ Len(out) = 1 =>
              \A order \in IterOrders(es_results, vector_results, config) :
                  OutId(out[1]) =
                      OutId(hybrid_search("q", es_results, vector_results,
                                          DefaultConfig, order)[1])

\* The call with threshold 0.9 returned on the scenario's inputs, whose
\* best result e2 scores 0.7 * 1 + 0.3 * (4.3 / 6.7), below 0.9.
ThresholdScenarioWitness ==
    /\ Returned /\ IsBasicScenario
    /\ config = [DefaultConfig EXCEPT !.min_score_threshold = Rat(9, 10)]
    /\ RLess(FusedScore("e2"), Rat(9, 10))
    /\ Len(out) = 0

(***************************************************************************)
(* C19  Monotonic weighting: under the Weighted method with all raw scores *)
(* fixed, raising semantic_weight (keyword_weight = 1 - semantic_weight)   *)
(* strictly improves the position in the output of a candidate that scores *)
(* high semantically and low lexically.                                    *)
(***************************************************************************)
\* c's normalized semantic score is the highest and its normalized keyword
\* score the lowest: against every other candidate it is at least as good
\* semantically, at most as good lexically, and differs in one of the two.
SemanticallyFavoured(c) ==
    LET sem == NormalizeBy(config, Similarities(vector_results))
        kw == NormalizeBy(config, EsScores(es_results))
    IN  \A o \in InputIds \ {c} :
            /\ RLeq(SemanticNorm(o, sem), SemanticNorm(c, sem))
            /\ RLeq(KeywordNorm(c, kw), KeywordNorm(o, kw))
            /\ \/ RLess(SemanticNorm(o, sem), SemanticNorm(c, sem))
               \/ RLess(KeywordNorm(c, kw), KeywordNorm(o, kw))

\* 1-based position of rid in a returned list.
OutPos(results, rid) == CHOOSE i \in 1..Len(results) : OutId(results[i]) = rid

\* The same call with a higher semantic weight.
Reweighted(w, order) ==
    hybrid_search("q", es_results, vector_results,
                  [config EXCEPT !.semantic_weight = w, !.keyword_weight = RSub(One, w)],
                  order)

\* The case of the claim: every candidate is returned, by weighted fusion.
WeightingCase ==
    /\ Returned /\ BothNonEmpty /\ IsWeighted /\ InputsUnique /\ Uncapped
    /\ config.min_score_threshold = Zero

\* C19 as stated: the position strictly improves.
MonotonicWeightingStrict ==
    WeightingCase =>
        \A w \in Weights :
            RLess(config.semantic_weight, w) =>
                \A c \in InputIds :
                    SemanticallyFavoured(c) =>
                        \A order \in IterOrders(es_results, vector_results, config) :
                            OutPos(Reweighted(w, order), c) < OutPos(out, c)

\* C19 as amended: the candidate is never overtaken.  A candidate returned
\* behind it stays behind it under the higher weight, whenever both are
\* returned again; so where the same candidates are returned its position
\* does not get worse.
MonotonicWeighting ==
    (Returned /\ IsWeighted /\ InputsUnique) =>
        \A w \in Weights :
            RLess(config.semantic_weight, w) =>
                \A c \in OutIds :
                    SemanticallyFavoured(c) =>
                        \A order \in IterOrders(es_results, vector_results, config) :
                            LET again == Reweighted(w, order)
                                ids == {OutId(again[i]) : i \in 1..Len(again)}
                            IN  \A o \in (OutIds \cap ids) \ {c} :
                                    (c \in ids /\ OutPos(out, c) < OutPos(out, o))
                                        => OutPos(again, c) < OutPos(again, o)

\* Under weights 0.5 / 0.5 a semantically favoured candidate came second,
\* and under 0.7 / 0.3 it comes first.
MonotonicWeightingWitness ==
    /\ WeightingCase
    /\ config.semantic_weight = Half
    /\ \E c \in InputIds :
          /\ SemanticallyFavoured(c)
          /\ OutPos(out, c) = 2
          /\ \A order \in IterOrders(es_results, vector_results, config) :
                OutPos(Reweighted(Rat(7, 10), order), c) = 1

(***************************************************************************)
(* C20  Docstring example: for es_results email-1 (score 12.5), email-2    *)
(* (score 8.3) and vector_results email-2 (distance 0.15), email-3         *)
(* (distance 0.22) under the default config, the first result is email-2   *)
(* and its hybrid_score prints as 0.876.                                   *)
(***************************************************************************)
DocstringExample ==
    (Returned /\ es_results = DocstringEs /\ vector_results = DocstringVector
       /\ config = DefaultConfig) =>
        /\ Len(out) >= 1
        /\ OutId(out[1]) = "email-2"
        /\ RLeq(Rat(8755, 10000), out[1]["hybrid_score"])
        /\ RLess(out[1]["hybrid_score"], Rat(8765, 10000))

(***************************************************************************)
(* C21  Purity: a call leaves its arguments as they were: both lists keep  *)
(* their length and order, no input record gains, loses or changes a key,  *)
(* and the config is unchanged; on every path, the RRF merge of a record   *)
(* found in both lists included.                                           *)
(***************************************************************************)
Purity ==
    [][/\ es_results' = es_results
       /\ vector_results' = vector_results
       /\ config' = config]_vars

\* RRF returned a record merged from both lists, with the scores written
\* into it, and the keyword record it started from carries none of them.
PurityWitness ==
    /\ Returned /\ BothNonEmpty /\ ~IsWeighted /\ InputsUnique
    /\ \E i \in 1..Len(out) :
          /\ OutId(out[i]) \in SharedIds
          /\ "rrf_score" \in DOMAIN out[i]
          /\ "distance" \in DOMAIN out[i]
          /\ LET e == es_results[Pos(es_results, OutId(out[i]))]
             IN  DOMAIN e \cap (AddedKeys \cup {"distance"}) = {}

(***************************************************************************)
(* C22  Concurrent safety: when calls run interleaved in any order with no *)
(* locking, each call returns exactly what it returns when run alone on    *)
(* the same arguments.                                                     *)
(***************************************************************************)
\* The results call t can return when it runs alone on the arguments.
Alone(t) ==
    {hybrid_search("q", es_results, vector_results, config[t], order) :
        order \in IterOrders(es_results, vector_results, config[t])}

ConcurrentSafety == \A t \in Threads : pc[t] = "returned" => out[t] \in Alone(t)

\* A Weighted call and an RRF call on the same lists, which share an id,
\* have both returned.
ConcurrentSafetyWitness ==
    /\ \A t \in Threads : pc[t] = "returned"
    /\ config[1].method = "weighted"
    /\ config[2].method = "rrf"
    /\ ResultIds(es_results) \cap ResultIds(vector_results) # {}
    /\ out[1] # out[2]

(***************************************************************************)
(* C23  Query independence: for fixed lists and config, calls that differ  *)
(* only in the query string return identical outputs.                      *)
(***************************************************************************)
QueryIndependence ==
    Returned =>
        /\ \A q1, q2 \in Queries :
              \A order \in IterOrders(es_results, vector_results, config) :
                  hybrid_search(q1, es_results, vector_results, config, order)
                      = hybrid_search(q2, es_results, vector_results, config, order)
        /\ \A q \in Queries :
              \E order \in IterOrders(es_results, vector_results, config) :
                  out = hybrid_search(q, es_results, vector_results, config, order)

\* A call on two non-empty lists returned results; the query may have been
\* the empty string.
QueryIndependenceWitness ==
    /\ Returned /\ BothNonEmpty /\ Len(out) >= 2
    /\ out = hybrid_search("", es_results, vector_results, config,
                           [i \in 1..Len(out) |-> OutId(out[i])])

(***************************************************************************)
(* C24  ZScoreSigmoid degenerate rule: whenever the population standard    *)
(* deviation of the scores is below 1e-9, every single-element input       *)
(* included, the standard normalizer returns 0.5 for every element.        *)
(***************************************************************************)
Normalized == pc = "normalized"
RawScores == EsScores(es_results)

\* The population standard deviation is below 1e-9.  The scores this is
\* evaluated on are equal or at least 1/2 apart, so it means: all equal.
StdBelowEps(raw) == \A i, j \in 1..Len(raw) : raw[i] = raw[j]

\* C24 as stated: 0.5 for every element, single-element inputs included.
ZScoreDegenerate ==
    (Normalized /\ config.normalize_method = "standard" /\ StdBelowEps(RawScores)) =>
        \A i \in 1..Len(out) : out[i] = Half

\* C24 as amended: 0.5 for every element of an input of two or more
\* elements; a single-element input yields 1.0.
ZScoreDegenerateAmended ==
    (Normalized /\ config.normalize_method = "standard" /\ StdBelowEps(RawScores)) =>
        /\ Len(out) = Len(RawScores)
        /\ Len(RawScores) >= 2 => \A i \in 1..Len(out) : out[i] = Half
        /\ Len(RawScores) = 1 => out[1] = One

\* The standard normalizer returned for three equal scores.
ZScoreDegenerateWitness ==
    /\ Normalized /\ config.normalize_method = "standard"
    /\ Len(RawScores) = 3 /\ StdBelowEps(RawScores)
    /\ out = <<Half, Half, Half>>

(***************************************************************************)
(* C25  MinMax normalizer: for a non-empty score list it returns a list of *)
(* the same length with norm[i] = (raw[i] - min) / (max - min); a single   *)
(* score yields 1.0; two or more scores with max - min < 1e-9 yield 0.5    *)
(* each; every value is in [0, 1] and a larger raw score never gets a      *)
(* smaller normalized value.                                               *)
(***************************************************************************)
MinMaxNormalizer ==
    (Normalized /\ config.normalize_method = "minmax" /\ RawScores # <<>>) =>
        LET raw == RawScores
            lo == SeqMin(raw)
            hi == SeqMax(raw)
        IN  /\ Len(out) = Len(raw)
            /\ Len(raw) = 1 => out[1] = One
            /\ (Len(raw) >= 2 /\ BelowEps(RSub(hi, lo))) =>
                  \A i \in 1..Len(out) : out[i] = Half
            /\ (Len(raw) >= 2 /\ ~BelowEps(RSub(hi, lo))) =>
                  \A i \in 1..Len(out) : out[i] = RDiv(RSub(raw[i], lo), RSub(hi, lo))
            /\ \A i \in 1..Len(out) : RLeq(Zero, out[i]) /\ RLeq(out[i], One)
            /\ \A i, j \in 1..Len(out) : RLess(raw[j], raw[i]) => RLeq(out[j], out[i])

\* MinMax returned 0, 1/4 and 1 for three scores not given in order.
MinMaxNormalizerWitness ==
    /\ Normalized /\ config.normalize_method = "minmax"
    /\ RawScores = <<Half, Zero, Rat(2, 1)>>
    /\ out = <<Rat(1, 4), Zero, One>>

\* MinMax returned 0.5 twice for two scores 5e-10 apart.
MinMaxCloseWitness ==
    /\ Normalized /\ config.normalize_method = "minmax"
    /\ RawScores = <<Zero, Rat(1, 2 * EpsDen)>>
    /\ out = <<Half, Half>>

(***************************************************************************)
(* C26  Method-specific fields: under RRF every returned record carries    *)
(* rrf_score with hybrid_score = rrf_score and no es_norm_score or         *)
(* vector_norm_score; under Weighted every record carries both norm scores *)
(* and no rrf_score; on every path, one list empty included.               *)
(***************************************************************************)
MethodSpecificFields ==
    Returned =>
        \A i \in 1..Len(out) :
            IF config.method = "rrf"
            THEN /\ "rrf_score" \in DOMAIN out[i]
                 /\ out[i]["hybrid_score"] = out[i]["rrf_score"]
                 /\ "es_norm_score" \notin DOMAIN out[i]
                 /\ "vector_norm_score" \notin DOMAIN out[i]
            ELSE /\ "es_norm_score" \in DOMAIN out[i]
                 /\ "vector_norm_score" \in DOMAIN out[i]
                 /\ "rrf_score" \notin DOMAIN out[i]

(***************************************************************************)
(* C27  Config immutability: a constructed HybridSearchConfig cannot       *)
(* change, so every configuration that reaches hybrid_search satisfies the *)
(* construction invariants; no sequence of operations on a constructed     *)
(* configuration yields one that violates them.                            *)
(***************************************************************************)
ConfigImmutability == pc = "constructed" => ValidConfig(config)

(***************************************************************************)
(* C28  Weighted score range: with the Weighted method and any valid       *)
(* configuration, every hybrid_score, keyword norm score and semantic norm *)
(* score in the output lies in [0, 1], on the two-source path and on both  *)
(* single-source paths.                                                    *)
(***************************************************************************)
InUnit(x) == RLeq(Zero, x) /\ RLeq(x, One)

WeightedScoreRange ==
    (Returned /\ IsWeighted /\ ValidConfig(config)) =>
        \A i \in 1..Len(out) :
            /\ InUnit(out[i]["hybrid_score"])
            /\ InUnit(out[i]["es_norm_score"])
            /\ InUnit(out[i]["vector_norm_score"])

(***************************************************************************)
(* C29  Distance conversion: every vector distance d becomes the           *)
(* similarity max(0, 1 - d) before normalization, on the Weighted path and *)
(* on the semantic-only path, so the normalizer gets no negative value and *)
(* every distance >= 1 counts as similarity 0; keyword scores reach the    *)
(* normalizer as they are; a vector record without a distance counts as    *)
(* distance 1.0, a keyword record without a score as score 0.0.            *)
(***************************************************************************)
ClaimedDistance(r) == IF "distance" \in DOMAIN r THEN r["distance"] ELSE One
ClaimedSimilarity(r) ==
    IF RLeq(One, ClaimedDistance(r)) THEN Zero ELSE RSub(One, ClaimedDistance(r))
ClaimedKeywordScore(r) ==
    IF "_score" \in DOMAIN r THEN r["_score"]
    ELSE IF "score" \in DOMAIN r THEN r["score"] ELSE Zero

\* The normalizer of the path taken: the configured one with both lists
\* non-empty, MinMax with one list empty.
PathNormalize(scores) ==
    IF BothNonEmpty THEN NormalizeBy(config, scores) ELSE _normalize_scores_minmax(scores)

DistanceConversion ==
    (Returned /\ IsWeighted /\ InputsUnique) =>
        LET sims == [i \in 1..Len(vector_results) |-> ClaimedSimilarity(vector_results[i])]
            raws == [i \in 1..Len(es_results) |-> ClaimedKeywordScore(es_results[i])]
        IN  /\ \A i \in 1..Len(vector_results) :
                  RLeq(Zero, Similarities(vector_results)[i])
            /\ \A i \in 1..Len(out) :
                  /\ OutId(out[i]) \in ResultIds(vector_results) =>
                        out[i]["vector_norm_score"]
                            = PathNormalize(sims)[Pos(vector_results, OutId(out[i]))]
                  /\ OutId(out[i]) \in ResultIds(es_results) =>
                        out[i]["es_norm_score"]
                            = PathNormalize(raws)[Pos(es_results, OutId(out[i]))]

\* A vector record without a distance and one with distance 3/2 both got
\* the norm score 0.5 of two equal similarities, next to a keyword record
\* without a score.
DistanceConversionWitness ==
    /\ Returned /\ IsWeighted /\ InputsUnique /\ BothNonEmpty
    /\ \E i, j \in 1..Len(vector_results) :
          /\ "distance" \notin DOMAIN vector_results[i]
          /\ "distance" \in DOMAIN vector_results[j]
          /\ vector_results[j]["distance"] = Rat(3, 2)
          /\ \E k, l \in 1..Len(out) :
                /\ OutId(out[k]) = _extract_result_id(vector_results[i])
                /\ OutId(out[l]) = _extract_result_id(vector_results[j])
                /\ out[k]["vector_norm_score"] = Half
                /\ out[l]["vector_norm_score"] = Half
    /\ \E i \in 1..Len(es_results) : "score" \notin DOMAIN es_results[i]

\* The semantic-only path: distances 1/2 and 3/2 became 1.0 and 0.0.
DistanceConversionShortcutWitness ==
    /\ Returned /\ IsWeighted /\ es_results = <<>> /\ Len(out) = 2
    /\ \A i \in 1..2 : "distance" \in DOMAIN out[i]
    /\ out[1]["distance"] = Half /\ out[1]["vector_norm_score"] = One
    /\ out[2]["distance"] = Rat(3, 2) /\ out[2]["vector_norm_score"] = Zero

(***************************************************************************)
(* C30  Deduplication keeps the highest score: when an id occurs more than *)
(* once among the input records of the Weighted method, the output record  *)
(* for that id is built from the occurrence with the highest score (the    *)
(* smallest distance, for vector records), not from the last occurrence.   *)
(***************************************************************************)
\* Stated for calls that reach _rank_weighted, both lists non-empty.
DedupKeepsHighest ==
    (Returned /\ IsWeighted /\ BothNonEmpty) =>
        \A i \in 1..Len(out) :
            LET rid == OutId(out[i])
            IN  /\ rid \in ResultIds(es_results) =>
                      \A j \in 1..Len(es_results) :
                          _extract_result_id(es_results[j]) = rid =>
                              RLeq(_extract_es_score(es_results[j]), _extract_es_score(out[i]))
                /\ rid \in ResultIds(vector_results) =>
                      \A j \in 1..Len(vector_results) :
                          _extract_result_id(vector_results[j]) = rid =>
                              RLeq(_extract_vector_distance(out[i]),
                                   _extract_vector_distance(vector_results[j]))

=============================================================================
